---- MODULE Spec2Model ----
(* State-transition model of the wzec_bridge program                         *)
(* (solana-program/programs/wzec-bridge/src/lib.rs).                         *)
(*                                                                           *)
(* u64 values are kept at full width.  TLC's integers are 32 bits wide, so a *)
(* u64 is a little-endian sequence of base-10000 limbs without leading zero  *)
(* limbs (0 is << >>); every checked_* operator compares against U64_MAX as  *)
(* Rust does.                                                                *)
EXTENDS Integers, Sequences, FiniteSets, TLC

\* ------------------------------------------------------------------ bounds
\* Number of committed mint_wzec/burn_wzec calls after which the model issues
\* only mint_wzec/burn_wzec calls that fail.
MaxOps == 2

\* ------------------------------------------------- unbounded naturals (limbs)
\* The divisor of the fee computation (basis points).
BPS_DENOMINATOR == 10000

\* Radix of the limb representation.
Radix == BPS_DENOMINATOR

RECURSIVE Norm(_)
\* Strip leading (most significant) zero limbs.
Norm(a) ==
    IF a = << >> THEN << >>
    ELSE IF a[Len(a)] = 0 THEN Norm(SubSeq(a, 1, Len(a) - 1))
    ELSE a

RECURSIVE FromInt(_)
\* The limb sequence of a small non-negative integer.
FromInt(n) == IF n = 0 THEN << >> ELSE <<n % Radix>> \o FromInt(n \div Radix)

Limb(a, i) == IF i <= Len(a) THEN a[i] ELSE 0

Rest(a) == IF a = << >> THEN << >> ELSE Tail(a)

RECURSIVE AddC(_, _, _)
AddC(a, b, c) ==
    IF a = << >> /\ b = << >>
    THEN FromInt(c)
    ELSE LET s == Limb(a, 1) + Limb(b, 1) + c
         IN  <<s % Radix>> \o AddC(Rest(a), Rest(b), s \div Radix)

\* a + b, exact.
Add(a, b) == AddC(a, b, 0)

RECURSIVE MulC(_, _, _)
MulC(a, k, c) ==
    IF a = << >>
    THEN FromInt(c)
    ELSE LET p == Head(a) * k + c
         IN  <<p % Radix>> \o MulC(Tail(a), k, p \div Radix)

\* a * k, exact, for a small integer k (k <= 65535 keeps every limb product
\* below 2^31).
MulSmall(a, k) == Norm(MulC(a, k, 0))

RECURSIVE Cmp(_, _, _)
\* Compare limb i downwards: -1, 0, 1.
Cmp(a, b, i) ==
    IF i = 0 THEN 0
    ELSE IF a[i] < b[i] THEN -1
    ELSE IF a[i] > b[i] THEN 1
    ELSE Cmp(a, b, i - 1)

Compare(a, b) ==
    IF Len(a) < Len(b) THEN -1
    ELSE IF Len(a) > Len(b) THEN 1
    ELSE Cmp(a, b, Len(a))

Leq(a, b) == Compare(a, b) <= 0
Lt(a, b) == Compare(a, b) < 0

RECURSIVE SubB(_, _, _)
SubB(a, b, borrow) ==
    IF a = << >> THEN << >>
    ELSE LET d == Limb(a, 1) - Limb(b, 1) - borrow
         IN  IF d < 0
             THEN <<d + Radix>> \o SubB(Rest(a), Rest(b), 1)
             ELSE <<d>> \o SubB(Rest(a), Rest(b), 0)

\* a - b, exact, for b <= a.
Sub(a, b) == Norm(SubB(a, b, 0))

RECURSIVE DivC(_, _, _, _)
\* Long division by a small integer d, from limb i downwards with remainder r.
DivC(a, d, i, r) ==
    IF i = 0 THEN << >>
    ELSE LET cur == r * Radix + a[i]
         IN  DivC(a, d, i - 1, cur % d) \o <<cur \div d>>

\* floor(a / d), exact, for a small integer 0 < d <= Radix.
DivSmall(a, d) == Norm(DivC(a, d, Len(a), 0))

Zero == << >>

\* u64::MAX = 18446744073709551615.
U64_MAX == <<1615, 955, 737, 6744, 1844>>

\* 2^64.
TwoPow64 == Add(U64_MAX, FromInt(1))

\* u16::MAX.
U16_MAX == 65535

\* ------------------------------------------------------- Rust checked ops
None == [some |-> FALSE, v |-> Zero]
Some(x) == [some |-> TRUE, v |-> x]

\* Mutant of checked_add: u64::wrapping_add, which never reports the overflow.
checked_add_Wrapping(a, b) ==
    LET s == Add(a, b)
    IN  Some(IF Leq(s, U64_MAX) THEN s ELSE Sub(s, TwoPow64))

\* u64::checked_add
checked_add(a, b) ==
    LET s == Add(a, b) IN IF Leq(s, U64_MAX) THEN Some(s) ELSE None

\* u64::checked_mul by (fee_percentage as u64)
checked_mul(a, k) ==
    LET p == MulSmall(a, k) IN IF Leq(p, U64_MAX) THEN Some(p) ELSE None

\* u64::checked_div
checked_div(a, d) == IF d = 0 THEN None ELSE Some(DivSmall(a, d))

\* Mutant of checked_sub: u64::saturating_sub, which never reports the underflow.
checked_sub_Saturating(a, b) == IF Leq(b, a) THEN Some(Sub(a, b)) ELSE Some(Zero)

\* u64::checked_sub
checked_sub(a, b) == IF Leq(b, a) THEN Some(Sub(a, b)) ELSE None

\* ------------------------------------------------------------ identities
\* Keys that can sign a transaction.
Signers == {"K1", "K2"}

\* Pubkey::default(), the all-zero public key; nobody can sign with it.
ZERO_PUBKEY == "K0"

Pubkeys == Signers \cup {ZERO_PUBKEY}

\* Token mint accounts a caller can pass as `mint`.
Mints == {"mintA", "mintB"}

\* The mint account initialize is called with.  The two accounts of Mints are
\* interchangeable, so one stands for the bridge's own mint and the other for
\* a mint that is not the bridge's.
InitMints == {"mintA"}

\* ---------------------------------------------------------------- inputs
\* fee_percentage: u16 values passed to initialize.
FeeInputs == {0, 1, 10, 10000, 10001, 20000, U16_MAX}

\* amount: u64 values passed to mint_wzec and burn_wzec.
Amounts == {Zero, FromInt(100), FromInt(123456789), U64_MAX}

\* zcash_txid strings passed to mint_wzec.
Txids == {"txid1", "txid2"}

\* The literal prefix of burn_wzec's address check.
ZEC_PREFIX == "ztestsapling1"

\* Mutant of ZEC_MIN_LEN: the length check is off by one.
ZEC_MIN_LEN_OffByOne == 78 - 1

\* The minimum length (in bytes) of burn_wzec's address check.
ZEC_MIN_LEN == 78

\* zec_address strings passed to burn_wzec: the prefix plus 65 filler
\* characters (length 78), the prefix plus 64 (length 77), "zinvalid", and 78
\* characters that do not start with the prefix.
AddrValid == ZEC_PREFIX \o "qqqqqqqqqqqqqqqqqqqqqqqqqqqqqqqqqqqqqqqqqqqqqqqqqqqqqqqqqqqqqqqqq"
AddrShort == ZEC_PREFIX \o "qqqqqqqqqqqqqqqqqqqqqqqqqqqqqqqqqqqqqqqqqqqqqqqqqqqqqqqqqqqqqqqq"
AddrInvalid == "zinvalid"
AddrNoPrefix == "qqqqqqqqqqqqqqqqqqqqqqqqqqqqqqqqqqqqqqqqqqqqqqqqqqqqqqqqqqqqqqqqqqqqqqqqqqqqqq"
Addresses == {AddrValid, AddrShort, AddrInvalid, AddrNoPrefix}

\* str::starts_with
starts_with(s, p) == Len(s) >= Len(p) /\ SubSeq(s, 1, Len(p)) = p

\* ----------------------------------------------------------------- state
VARIABLES
    initialized,    \* the bridge_state account exists (created by initialize)
    bridge_state,   \* the persisted BridgeState record
    supply,         \* custody ledger: units in circulation per token mint
    ops,            \* committed mint_wzec/burn_wzec calls so far
    call,           \* the last call: its inputs, the state before it, its return
    watch,          \* the transaction references whose use is recorded
    used            \* the watched references of the committed mint_wzec calls

vars == <<initialized, bridge_state, supply, ops, call, watch, used>>

\* The account data before initialize: all zero.
EmptyState ==
    [authority |-> ZERO_PUBKEY, mint |-> ZERO_PUBKEY, fee_percentage |-> 0,
     paused |-> FALSE, total_minted |-> Zero, total_burned |-> Zero,
     fee_collected |-> Zero]

NoCpi == [issued |-> FALSE, ok |-> FALSE]

\* What a handler hands back: its Result, the in-memory BridgeState at the
\* return, the custody call it issued (if any) with the ledger after it, the
\* fee and amount_after_fee burn_wzec computed (when it got that far), and, for
\* an arithmetic failure, the checked operation that failed.
Ret(result, bs, cpi, sup, fee, after) ==
    [result |-> result, bs |-> bs, cpi |-> cpi, supply |-> sup,
     fee |-> fee, amount_after_fee |-> after, site |-> ""]

\* ok_or(BridgeError::Overflow)? taken at `site`.
Overflow(site, bs, cpi, sup, fee, after) ==
    [Ret("Overflow", bs, cpi, sup, fee, after) EXCEPT !.site = site]

\* A require! that fails: nothing was touched, no custody call was issued.
Fail(err, bs, sup) == Ret(err, bs, NoCpi, sup, Zero, Zero)

\* ------------------------------------------------- custody collaborator
\* token::mint_to: the token program adds `amount` to the mint's supply, or
\* refuses: on supply overflow, or when one of its own checks (mint authority,
\* recipient account) fails, which `accept` stands for.
token_mint_to(sup, mint, amount, accept) ==
    LET s == checked_add(sup[mint], amount)
    IN  IF accept /\ s.some
        THEN [ok |-> TRUE, supply |-> [sup EXCEPT ![mint] = s.v]]
        ELSE [ok |-> FALSE, supply |-> sup]

\* token::burn: the token program removes `amount` from the holder's account
\* and the mint's supply, or refuses: when the units are not there, or when
\* one of its own checks (owner, account/mint match) fails.
token_burn(sup, mint, amount, accept) ==
    LET s == checked_sub(sup[mint], amount)
    IN  IF accept /\ s.some
        THEN [ok |-> TRUE, supply |-> [sup EXCEPT ![mint] = s.v]]
        ELSE [ok |-> FALSE, supply |-> sup]

\* --------------------------------------------------------------- handlers
\* Mutant of initialize: fee_percentage is capped at 100%.
initialize_CapFee(bs, authority, mint, fee_percentage) ==
    [bs EXCEPT !.authority = authority,
               !.mint = mint,
               !.fee_percentage = IF fee_percentage > BPS_DENOMINATOR
                                  THEN BPS_DENOMINATOR ELSE fee_percentage,
               !.paused = FALSE,
               !.total_minted = Zero,
               !.total_burned = Zero,
               !.fee_collected = Zero]

initialize(bs, authority, mint, fee_percentage) ==
    [bs EXCEPT !.authority = authority,
               !.mint = mint,
               !.fee_percentage = fee_percentage,
               !.paused = FALSE,
               !.total_minted = Zero,
               !.total_burned = Zero,
               !.fee_collected = Zero]

\* mint_wzec after its require! checks: the custody call, then the counter.
\* Mutant of mint_effects: the result of token::mint_to is dropped instead of
\* being propagated with `?`.
mint_effects_DropsCustodyError(bs, sup, mint, amount, accept) ==
    LET cpi == token_mint_to(sup, mint, amount, accept)
        issued == [issued |-> TRUE, ok |-> cpi.ok]
        total == checked_add(bs.total_minted, amount)
    IN  IF ~total.some
        THEN Overflow("total_minted", bs, issued, cpi.supply, Zero, Zero)
        ELSE Ret("Ok", [bs EXCEPT !.total_minted = total.v],
                 issued, cpi.supply, Zero, Zero)

\* Mutant of mint_effects: the counter is advanced with wrapping_add.
mint_effects_WrappingAdd(bs, sup, mint, amount, accept) ==
    LET cpi == token_mint_to(sup, mint, amount, accept)
        issued == [issued |-> TRUE, ok |-> cpi.ok]
    IN  IF ~cpi.ok
        THEN Ret("TokenProgramError", bs, issued, cpi.supply, Zero, Zero)
        ELSE Ret("Ok",
                 [bs EXCEPT !.total_minted =
                      checked_add_Wrapping(bs.total_minted, amount).v],
                 issued, cpi.supply, Zero, Zero)

mint_effects(bs, sup, mint, amount, accept) ==
    LET cpi == token_mint_to(sup, mint, amount, accept)
        issued == [issued |-> TRUE, ok |-> cpi.ok]
    IN  IF ~cpi.ok
        THEN Ret("TokenProgramError", bs, issued, cpi.supply, Zero, Zero)
        ELSE LET total == checked_add(bs.total_minted, amount)
             IN  IF ~total.some
                 THEN Overflow("total_minted", bs, issued, cpi.supply, Zero, Zero)
                 ELSE Ret("Ok", [bs EXCEPT !.total_minted = total.v],
                          issued, cpi.supply, Zero, Zero)

\* Mutant of mint_wzec: the amount is validated before the pause flag.
mint_wzec_AmountFirst(bs, sup, authority, mint, amount, zcash_txid, accept) ==
    IF ~Lt(Zero, amount) THEN Fail("InvalidAmount", bs, sup)
    ELSE IF bs.paused THEN Fail("BridgePaused", bs, sup)
    ELSE IF authority # bs.authority THEN Fail("Unauthorized", bs, sup)
    ELSE mint_effects(bs, sup, mint, amount, accept)

\* Mutant of mint_wzec: the custody call is issued before the amount is
\* validated.
mint_wzec_MintsBeforeAmountCheck(bs, sup, authority, mint, amount, zcash_txid, accept) ==
    IF bs.paused THEN Fail("BridgePaused", bs, sup)
    ELSE IF authority # bs.authority THEN Fail("Unauthorized", bs, sup)
    ELSE LET minted == mint_effects(bs, sup, mint, amount, accept)
         IN  IF minted.result = "Ok" /\ ~Lt(Zero, amount)
             THEN Ret("InvalidAmount", bs, minted.cpi, minted.supply, Zero, Zero)
             ELSE minted

\* Mutant of mint_wzec: the reference is validated (a 64-character
\* transaction id is required).
mint_wzec_ValidatesTxid(bs, sup, authority, mint, amount, zcash_txid, accept) ==
    IF bs.paused THEN Fail("BridgePaused", bs, sup)
    ELSE IF authority # bs.authority THEN Fail("Unauthorized", bs, sup)
    ELSE IF ~Lt(Zero, amount) THEN Fail("InvalidAmount", bs, sup)
    ELSE IF Len(zcash_txid) # 64 THEN Fail("InvalidAmount", bs, sup)
    ELSE mint_effects(bs, sup, mint, amount, accept)

mint_wzec(bs, sup, authority, mint, amount, zcash_txid, accept) ==
    IF bs.paused THEN Fail("BridgePaused", bs, sup)
    ELSE IF authority # bs.authority THEN Fail("Unauthorized", bs, sup)
    ELSE IF ~Lt(Zero, amount) THEN Fail("InvalidAmount", bs, sup)
    ELSE mint_effects(bs, sup, mint, amount, accept)

\* Mutant of update_authority: the signer is not compared with the authority.
update_authority_Unchecked(bs, sup, authority, new_authority) ==
    Ret("Ok", [bs EXCEPT !.authority = new_authority], NoCpi, sup, Zero, Zero)

\* Mutant of update_authority: handing over the authority also resumes the
\* bridge.
update_authority_Resumes(bs, sup, authority, new_authority) ==
    IF authority # bs.authority THEN Fail("Unauthorized", bs, sup)
    ELSE Ret("Ok", [bs EXCEPT !.authority = new_authority, !.paused = FALSE],
             NoCpi, sup, Zero, Zero)

update_authority(bs, sup, authority, new_authority) ==
    IF authority # bs.authority THEN Fail("Unauthorized", bs, sup)
    ELSE Ret("Ok", [bs EXCEPT !.authority = new_authority], NoCpi, sup, Zero, Zero)

\* Mutant of pause_bridge: pausing a bridge that is already paused is rejected.
pause_bridge_RejectRedundant(bs, sup, authority) ==
    IF authority # bs.authority THEN Fail("Unauthorized", bs, sup)
    ELSE IF bs.paused THEN Fail("BridgePaused", bs, sup)
    ELSE Ret("Ok", [bs EXCEPT !.paused = TRUE], NoCpi, sup, Zero, Zero)

pause_bridge(bs, sup, authority) ==
    IF authority # bs.authority THEN Fail("Unauthorized", bs, sup)
    ELSE Ret("Ok", [bs EXCEPT !.paused = TRUE], NoCpi, sup, Zero, Zero)

\* Mutant of resume_bridge: resuming also resets the fee.
resume_bridge_ResetsFee(bs, sup, authority) ==
    IF authority # bs.authority THEN Fail("Unauthorized", bs, sup)
    ELSE Ret("Ok", [bs EXCEPT !.paused = FALSE, !.fee_percentage = 0],
             NoCpi, sup, Zero, Zero)

resume_bridge(bs, sup, authority) ==
    IF authority # bs.authority THEN Fail("Unauthorized", bs, sup)
    ELSE Ret("Ok", [bs EXCEPT !.paused = FALSE], NoCpi, sup, Zero, Zero)

\* burn_wzec's "Calculate fee": amount * fee_percentage / 10000, each step
\* checked; None when a step fails, with the step that failed.
\* Mutant of calculate_fee: the division is done before the multiplication.
calculate_fee_DivideFirst(amount, fee_percentage) ==
    LET quotient == checked_div(amount, BPS_DENOMINATOR)
    IN  IF ~quotient.some
        THEN [some |-> FALSE, v |-> Zero, site |-> "checked_div"]
        ELSE LET product == checked_mul(quotient.v, fee_percentage)
             IN  IF ~product.some
                 THEN [some |-> FALSE, v |-> Zero, site |-> "checked_mul"]
                 ELSE [some |-> TRUE, v |-> product.v, site |-> ""]

\* Mutant of calculate_fee: the product is computed in 128 bits and only the
\* quotient is brought back to u64.
calculate_fee_Wide(amount, fee_percentage) ==
    LET quotient == DivSmall(MulSmall(amount, fee_percentage), BPS_DENOMINATOR)
    IN  IF Leq(quotient, U64_MAX)
        THEN [some |-> TRUE, v |-> quotient, site |-> ""]
        ELSE [some |-> FALSE, v |-> Zero, site |-> "checked_mul"]

calculate_fee(amount, fee_percentage) ==
    LET product == checked_mul(amount, fee_percentage)
    IN  IF ~product.some
        THEN [some |-> FALSE, v |-> Zero, site |-> "checked_mul"]
        ELSE LET quotient == checked_div(product.v, BPS_DENOMINATOR)
             IN  IF ~quotient.some
                 THEN [some |-> FALSE, v |-> Zero, site |-> "checked_div"]
                 ELSE [some |-> TRUE, v |-> quotient.v, site |-> ""]

\* Mutant of burn_effects: total_burned is advanced by amount_after_fee
\* instead of amount.
burn_effects_CountsNet(bs, sup, mint, amount, fee, amount_after_fee, accept) ==
    LET cpi == token_burn(sup, mint, amount, accept)
        issued == [issued |-> TRUE, ok |-> cpi.ok]
    IN  IF ~cpi.ok
        THEN Ret("TokenProgramError", bs, issued, cpi.supply, fee, amount_after_fee)
        ELSE LET burned == checked_add(bs.total_burned, amount_after_fee)
             IN  IF ~burned.some
                 THEN Overflow("total_burned", bs, issued, cpi.supply,
                               fee, amount_after_fee)
                 ELSE LET bs1 == [bs EXCEPT !.total_burned = burned.v]
                          collected == checked_add(bs1.fee_collected, fee)
                      IN  IF ~collected.some
                          THEN Overflow("fee_collected", bs1, issued, cpi.supply,
                                        fee, amount_after_fee)
                          ELSE Ret("Ok",
                                   [bs1 EXCEPT !.fee_collected = collected.v],
                                   issued, cpi.supply, fee, amount_after_fee)

\* burn_wzec after its checks and its fee computation: the custody call, then
\* the two counters.
burn_effects(bs, sup, mint, amount, fee, amount_after_fee, accept) ==
    LET cpi == token_burn(sup, mint, amount, accept)
        issued == [issued |-> TRUE, ok |-> cpi.ok]
    IN  IF ~cpi.ok
        THEN Ret("TokenProgramError", bs, issued, cpi.supply, fee, amount_after_fee)
        ELSE LET burned == checked_add(bs.total_burned, amount)
             IN  IF ~burned.some
                 THEN Overflow("total_burned", bs, issued, cpi.supply,
                               fee, amount_after_fee)
                 ELSE LET bs1 == [bs EXCEPT !.total_burned = burned.v]
                          collected == checked_add(bs1.fee_collected, fee)
                      IN  IF ~collected.some
                          THEN Overflow("fee_collected", bs1, issued, cpi.supply,
                                        fee, amount_after_fee)
                          ELSE Ret("Ok",
                                   [bs1 EXCEPT !.fee_collected = collected.v],
                                   issued, cpi.supply, fee, amount_after_fee)

\* Mutant of burn_wzec: the signer is compared with the authority, as in
\* mint_wzec.
burn_wzec_AuthorityOnly(bs, sup, user, mint, amount, zec_address, accept) ==
    IF bs.paused THEN Fail("BridgePaused", bs, sup)
    ELSE IF user # bs.authority THEN Fail("Unauthorized", bs, sup)
    ELSE IF ~Lt(Zero, amount) THEN Fail("InvalidAmount", bs, sup)
    ELSE IF ~(starts_with(zec_address, ZEC_PREFIX) /\ Len(zec_address) >= ZEC_MIN_LEN)
    THEN Fail("InvalidZecAddress", bs, sup)
    ELSE LET fee == calculate_fee(amount, bs.fee_percentage)
         IN  IF ~fee.some
             THEN Overflow(fee.site, bs, NoCpi, sup, Zero, Zero)
             ELSE LET amount_after_fee == checked_sub(amount, fee.v)
                  IN  IF ~amount_after_fee.some
                      THEN Overflow("checked_sub", bs, NoCpi, sup, fee.v, Zero)
                      ELSE burn_effects(bs, sup, mint, amount, fee.v,
                                        amount_after_fee.v, accept)

burn_wzec(bs, sup, user, mint, amount, zec_address, accept) ==
    IF bs.paused THEN Fail("BridgePaused", bs, sup)
    ELSE IF ~Lt(Zero, amount) THEN Fail("InvalidAmount", bs, sup)
    ELSE IF ~(starts_with(zec_address, ZEC_PREFIX) /\ Len(zec_address) >= ZEC_MIN_LEN)
    THEN Fail("InvalidZecAddress", bs, sup)
    ELSE LET fee == calculate_fee(amount, bs.fee_percentage)
         IN  IF ~fee.some
             THEN Overflow(fee.site, bs, NoCpi, sup, Zero, Zero)
             ELSE LET amount_after_fee == checked_sub(amount, fee.v)
                  IN  IF ~amount_after_fee.some
                      THEN Overflow("checked_sub", bs, NoCpi, sup, fee.v, Zero)
                      ELSE burn_effects(bs, sup, mint, amount, fee.v,
                                        amount_after_fee.v, accept)

\* ------------------------------------------------------------ transaction
\* Mutant of Commit: what a failed call wrote and minted or burned is kept.
Commit_KeepsFailedCalls(pre, pre_supply, ret) ==
    [bs |-> ret.bs, supply |-> ret.supply]

\* What the host keeps of a call: the account data and the custody effect of a
\* call that returned Ok, nothing of a call that returned an error.
Commit(pre, pre_supply, ret) ==
    IF ret.result = "Ok"
    THEN [bs |-> ret.bs, supply |-> ret.supply]
    ELSE [bs |-> pre, supply |-> pre_supply]

\* The zcash_txid of an instruction that takes none.
NoRef == ""

\* The record of the last call: the instruction, its signer, whether its
\* zcash_txid is one a committed mint_wzec has used, the accounts' state before
\* it and what the handler handed back.
Call(op, signer, zcash_txid, ret) ==
    [op |-> op, signer |-> signer, replay |-> zcash_txid \in used,
     pre |-> bridge_state, pre_supply |-> supply,
     result |-> ret.result, site |-> ret.site, cpi |-> ret.cpi]

NoCall ==
    [op |-> "none", signer |-> ZERO_PUBKEY, replay |-> FALSE,
     pre |-> EmptyState, pre_supply |-> [m \in Mints |-> Zero],
     result |-> "none", site |-> "", cpi |-> NoCpi]

\* Nothing has run; no transaction reference is watched.
Init ==
    /\ initialized = FALSE
    /\ bridge_state = EmptyState
    /\ supply = [m \in Mints |-> Zero]
    /\ ops = 0
    /\ call = NoCall
    /\ watch = {}
    /\ used = {}

\* The same, with one transaction reference watched.
InitRefs ==
    /\ initialized = FALSE
    /\ bridge_state = EmptyState
    /\ supply = [m \in Mints |-> Zero]
    /\ ops = 0
    /\ call = NoCall
    /\ watch = {"txid1"}
    /\ used = {}

\* ------------------------------------------------------------ instructions
\* One instruction against the current accounts: what the handler hands back
\* (ret) and what the host keeps of it (kept).
Outcome(ret) == [ret |-> ret, kept |-> Commit(bridge_state, supply, ret)]

InitializeIx(authority, mint, fee_percentage) ==
    Outcome(Ret("Ok", initialize(bridge_state, authority, mint, fee_percentage),
                NoCpi, supply, Zero, Zero))

MintIx(authority, mint, amount, zcash_txid, accept) ==
    Outcome(mint_wzec(bridge_state, supply, authority, mint, amount,
                      zcash_txid, accept))

BurnIx(user, mint, amount, zec_address, accept) ==
    Outcome(burn_wzec(bridge_state, supply, user, mint, amount,
                      zec_address, accept))

UpdateAuthorityIx(authority, new_authority) ==
    Outcome(update_authority(bridge_state, supply, authority, new_authority))

PauseIx(authority) == Outcome(pause_bridge(bridge_state, supply, authority))

ResumeIx(authority) == Outcome(resume_bridge(bridge_state, supply, authority))

\* The accounts and the call record after an instruction.
Apply(op, signer, zcash_txid, o) ==
    /\ bridge_state' = o.kept.bs
    /\ supply' = o.kept.supply
    /\ call' = Call(op, signer, zcash_txid, o.ret)
    /\ used' = IF op = "mint_wzec" /\ o.ret.result = "Ok"
               THEN used \cup ({zcash_txid} \cap watch)
               ELSE used
    /\ UNCHANGED watch

\* ---------------------------------------------------------------- actions
\* Each action is one instruction: the account context of the same name and
\* the handler it runs.
Initialize ==
    /\ ~initialized
    /\ \E authority \in Signers, mint \in InitMints, fee_percentage \in FeeInputs :
         /\ Apply("initialize", authority, NoRef, InitializeIx(authority, mint, fee_percentage))
         /\ initialized' = TRUE
         /\ UNCHANGED ops

MintWZEC ==
    /\ initialized
    /\ \E authority \in Signers, mint \in Mints, amount \in Amounts,
          zcash_txid \in Txids, accept \in BOOLEAN :
         \E o \in {MintIx(authority, mint, amount, zcash_txid, accept)} :
             /\ o.ret.result = "Ok" => ops < MaxOps
             /\ Apply("mint_wzec", authority, zcash_txid, o)
             /\ ops' = IF o.ret.result = "Ok" THEN ops + 1 ELSE ops
             /\ UNCHANGED initialized

BurnWZEC ==
    /\ initialized
    /\ \E user \in Signers, mint \in Mints, amount \in Amounts,
          zec_address \in Addresses, accept \in BOOLEAN :
         \E o \in {BurnIx(user, mint, amount, zec_address, accept)} :
             /\ o.ret.result = "Ok" => ops < MaxOps
             /\ Apply("burn_wzec", user, NoRef, o)
             /\ ops' = IF o.ret.result = "Ok" THEN ops + 1 ELSE ops
             /\ UNCHANGED initialized

UpdateAuthority ==
    /\ initialized
    /\ \E authority \in Signers, new_authority \in Pubkeys :
         /\ Apply("update_authority", authority, NoRef, UpdateAuthorityIx(authority, new_authority))
         /\ UNCHANGED <<initialized, ops>>

PauseBridge ==
    /\ initialized
    /\ \E authority \in Signers :
         /\ Apply("pause_bridge", authority, NoRef, PauseIx(authority))
         /\ UNCHANGED <<initialized, ops>>

ResumeBridge ==
    /\ initialized
    /\ \E authority \in Signers :
         /\ Apply("resume_bridge", authority, NoRef, ResumeIx(authority))
         /\ UNCHANGED <<initialized, ops>>

Next ==
    \/ Initialize
    \/ MintWZEC
    \/ BurnWZEC
    \/ UpdateAuthority
    \/ PauseBridge
    \/ ResumeBridge

Spec == Init /\ [][Next]_vars

\* The same program, observed with the use of transaction references recorded.
SpecRefs == InitRefs /\ [][Next]_vars

\* ================================================================= claims
\* The instruction changed nothing: the persisted BridgeState and the custody
\* ledger the host keeps are the ones before the call.
KeepsNothing(o) == o.kept.bs = bridge_state /\ o.kept.supply = supply

\* The handler returned before touching anything: no field of its BridgeState
\* was assigned and no custody call was issued.
Untouched(o) ==
    /\ o.ret.bs = bridge_state
    /\ ~o.ret.cpi.issued
    /\ o.ret.supply = supply
    /\ KeepsNothing(o)

\* The same of the last call, as the model recorded it.
LastCallChangedNothing ==
    /\ bridge_state = call.pre
    /\ supply = call.pre_supply

\* C1: while paused = true, every mint_wzec and every burn_wzec, by any caller
\* and with any arguments, fails with BridgePaused, assigns no field of
\* BridgeState and issues no custody call.
C1_PausedRefusesMintAndBurn ==
    /\ (initialized /\ bridge_state.paused) =>
         /\ \A authority \in Signers, mint \in Mints, amount \in Amounts,
               zcash_txid \in Txids, accept \in BOOLEAN :
              LET o == MintIx(authority, mint, amount, zcash_txid, accept)
              IN  o.ret.result = "BridgePaused" /\ Untouched(o)
         /\ \A user \in Signers, mint \in Mints, amount \in Amounts,
               zec_address \in Addresses, accept \in BOOLEAN :
              LET o == BurnIx(user, mint, amount, zec_address, accept)
              IN  o.ret.result = "BridgePaused" /\ Untouched(o)
    /\ (call.op \in {"mint_wzec", "burn_wzec"} /\ call.pre.paused) =>
         /\ call.result = "BridgePaused"
         /\ ~call.cpi.issued
         /\ LastCallChangedNothing

\* A burn_wzec was refused with BridgePaused on a bridge that had minted.
C1_Witness ==
    /\ call.op = "burn_wzec"
    /\ call.result = "BridgePaused"
    /\ call.pre.paused
    /\ bridge_state.total_minted # Zero

\* C2: a mint_wzec on an unpaused bridge, an update_authority, a pause_bridge
\* or a resume_bridge whose caller is not the stored authority fails with
\* Unauthorized and changes nothing; for mint_wzec whatever the amount (0
\* included) and the transaction reference, and no custody call is issued.
C2_NonAuthorityIsRefused ==
    /\ initialized =>
         \A caller \in Signers \ {bridge_state.authority} :
            /\ ~bridge_state.paused =>
                 \A mint \in Mints, amount \in Amounts, zcash_txid \in Txids,
                    accept \in BOOLEAN :
                    LET o == MintIx(caller, mint, amount, zcash_txid, accept)
                    IN  o.ret.result = "Unauthorized" /\ Untouched(o)
            /\ \A new_authority \in Pubkeys :
                 LET o == UpdateAuthorityIx(caller, new_authority)
                 IN  o.ret.result = "Unauthorized" /\ Untouched(o)
            /\ LET o == PauseIx(caller)
               IN  o.ret.result = "Unauthorized" /\ Untouched(o)
            /\ LET o == ResumeIx(caller)
               IN  o.ret.result = "Unauthorized" /\ Untouched(o)
    /\ call.result = "Unauthorized" =>
         /\ call.op \in {"mint_wzec", "update_authority", "pause_bridge",
                         "resume_bridge"}
         /\ ~call.cpi.issued
         /\ LastCallChangedNothing

\* A mint_wzec by a non-authority caller was refused with Unauthorized on an
\* unpaused bridge.
C2_Witness ==
    /\ call.op = "mint_wzec"
    /\ call.result = "Unauthorized"
    /\ ~bridge_state.paused
    /\ bridge_state.authority \in Signers

\* C3: after initialize no step decreases total_minted, total_burned or
\* fee_collected.
C3_CountersNeverDecrease ==
    [][initialized =>
         /\ Leq(bridge_state.total_minted, bridge_state'.total_minted)
         /\ Leq(bridge_state.total_burned, bridge_state'.total_burned)
         /\ Leq(bridge_state.fee_collected, bridge_state'.fee_collected)]_vars

\* A burn_wzec has advanced total_burned and fee_collected.
C3_Witness ==
    /\ call.op = "burn_wzec"
    /\ call.result = "Ok"
    /\ Lt(call.pre.total_burned, bridge_state.total_burned)
    /\ Lt(call.pre.fee_collected, bridge_state.fee_collected)
    /\ Lt(Zero, bridge_state.total_minted)

One == FromInt(1)

\* total_minted + amount exceeds u64::MAX, in exact arithmetic.
MintOverflows(amount) == Lt(U64_MAX, Add(bridge_state.total_minted, amount))

\* C4 as stated: a mint_wzec by the authority on an unpaused bridge with
\* amount > 0 and total_minted + amount > u64::MAX fails with Overflow and
\* changes nothing.  (A mint_wzec that issued its custody call is one by the
\* authority on an unpaused bridge with amount > 0; with total_minted at
\* u64::MAX every such amount overflows.)
C4_Original ==
    /\ (call.op = "mint_wzec" /\ call.cpi.issued
            /\ call.pre.total_minted = U64_MAX) =>
         call.result = "Overflow" /\ LastCallChangedNothing
    /\ (initialized /\ ~bridge_state.paused) =>
         \A mint \in Mints, amount \in Amounts \ {Zero}, zcash_txid \in Txids,
            accept \in BOOLEAN :
            LET o == MintIx(bridge_state.authority, mint, amount, zcash_txid,
                            accept)
            IN  (bridge_state.authority \in Signers /\ MintOverflows(amount)) =>
                    o.ret.result = "Overflow" /\ KeepsNothing(o)

\* C4, amended: such a mint_wzec issues the custody call and fails, with
\* Overflow when the custody call succeeded and with the collaborator's error
\* when it did not; either way total_minted keeps its value and nothing of the
\* custody mint is kept.  When the sum fits and the custody call succeeds the
\* mint succeeds and total_minted is the exact sum, so of two mints of
\* u64::MAX whose custody calls succeed the first succeeds and the second fails
\* with Overflow.
C4_MintOverflowIsRefused ==
    /\ (initialized /\ ~bridge_state.paused) =>
         \A mint \in Mints, amount \in Amounts \ {Zero}, zcash_txid \in Txids,
            accept \in BOOLEAN :
            LET o == MintIx(bridge_state.authority, mint, amount, zcash_txid,
                            accept)
            IN  bridge_state.authority \in Signers =>
                  /\ o.ret.cpi.issued
                  /\ MintOverflows(amount) =>
                       /\ o.ret.result =
                            IF o.ret.cpi.ok THEN "Overflow" ELSE "TokenProgramError"
                       /\ o.ret.bs.total_minted = bridge_state.total_minted
                       /\ KeepsNothing(o)
                  /\ (~MintOverflows(amount) /\ o.ret.cpi.ok) =>
                       /\ o.ret.result = "Ok"
                       /\ o.kept.bs =
                            [bridge_state EXCEPT
                               !.total_minted = Add(bridge_state.total_minted, amount)]
    /\ (call.op = "mint_wzec" /\ call.result = "Overflow") =>
         /\ call.cpi.ok
         /\ LastCallChangedNothing
    /\ (call.op = "mint_wzec" /\ call.result = "Ok") =>
         /\ Lt(call.pre.total_minted, bridge_state.total_minted)
         /\ Leq(bridge_state.total_minted, U64_MAX)

\* The second of two mints of u64::MAX failed with Overflow: total_minted was
\* and is u64::MAX.
C4_Witness ==
    /\ call.op = "mint_wzec"
    /\ call.result = "Overflow"
    /\ call.pre.total_minted = U64_MAX
    /\ bridge_state.total_minted = U64_MAX

\* The address passes burn_wzec's check.
ValidAddress(zec_address) ==
    starts_with(zec_address, ZEC_PREFIX) /\ Len(zec_address) >= ZEC_MIN_LEN

\* f = floor(amount * fee_percentage / 10000), in exact arithmetic.
IsFloorFee(f, amount, fee_percentage) ==
    LET product == MulSmall(amount, fee_percentage)
    IN  /\ Leq(MulSmall(f, BPS_DENOMINATOR), product)
        /\ Lt(product, MulSmall(Add(f, One), BPS_DENOMINATOR))

\* floor(amount * fee_percentage / 10000) > amount, in exact arithmetic.
FeeExceedsAmount(amount, fee_percentage) ==
    Leq(MulSmall(Add(amount, One), BPS_DENOMINATOR),
        MulSmall(amount, fee_percentage))

\* amount * fee_percentage exceeds u64::MAX, in exact arithmetic.
ProductOverflows(amount, fee_percentage) ==
    Lt(U64_MAX, MulSmall(amount, fee_percentage))

C6_Original ==
    (/\ call.op = "burn_wzec"
     /\ call.pre.fee_percentage > 10000
     /\ call.result \notin {"BridgePaused", "InvalidAmount", "InvalidZecAddress",
                            "TokenProgramError"}) =>
        /\ call.result = "Overflow"
        /\ LastCallChangedNothing

\* C6, amended: with fee_percentage > 10000 such a burn_wzec fails with
\* Overflow and changes nothing whenever floor(amount * fee_percentage / 10000)
\* exceeds amount: in the multiplication when the product leaves u64, in the
\* subtraction otherwise (20000 with 100); that is every burn once
\* fee_percentage >= 20000.  When the floor equals amount (10001 with 100)
\* amount_after_fee is 0 and the burn goes on to the custody call.
C6_FeeAboveAmountIsRefused ==
    /\ (initialized /\ ~bridge_state.paused /\ bridge_state.fee_percentage > 10000) =>
         \A user \in Signers, mint \in Mints, amount \in Amounts \ {Zero},
            zec_address \in {a \in Addresses : ValidAddress(a)},
            accept \in BOOLEAN :
            LET o == BurnIx(user, mint, amount, zec_address, accept)
                fp == bridge_state.fee_percentage
            IN  /\ ProductOverflows(amount, fp) =>
                     /\ o.ret.result = "Overflow"
                     /\ o.ret.site = "checked_mul"
                     /\ Untouched(o)
                /\ (~ProductOverflows(amount, fp) /\ FeeExceedsAmount(amount, fp)) =>
                     /\ o.ret.result = "Overflow"
                     /\ o.ret.site = "checked_sub"
                     /\ Untouched(o)
                /\ (~ProductOverflows(amount, fp) /\ ~FeeExceedsAmount(amount, fp)) =>
                     /\ o.ret.cpi.issued
                     /\ o.ret.fee = amount
                     /\ o.ret.amount_after_fee = Zero
                /\ fp >= 20000 => o.ret.result = "Overflow"
    /\ (call.op = "burn_wzec" /\ call.pre.fee_percentage > 10000) =>
         /\ call.result = "Overflow" =>
              ~call.cpi.issued /\ LastCallChangedNothing
         /\ call.pre.fee_percentage >= 20000 =>
              call.result \in {"BridgePaused", "InvalidAmount",
                               "InvalidZecAddress", "Overflow"}
         /\ call.result = "Ok" =>
              Sub(bridge_state.fee_collected, call.pre.fee_collected)
                = Sub(bridge_state.total_burned, call.pre.total_burned)

\* A burn_wzec failed with Overflow on a bridge whose fee_percentage is 20000
\* and that holds minted tokens.
C6_Witness ==
    /\ call.op = "burn_wzec"
    /\ call.result = "Overflow"
    /\ bridge_state.fee_percentage = 20000
    /\ Lt(Zero, supply[bridge_state.mint])

\* C7: pause_bridge and resume_bridge by the authority succeed whether the
\* bridge is paused or not, set paused to TRUE respectively FALSE and change
\* nothing else; so pause_bridge then resume_bridge leaves every field but
\* paused as it was.
C7_PauseResumeByAuthority ==
    /\ (initialized /\ bridge_state.authority \in Signers) =>
         LET p == PauseIx(bridge_state.authority)
             r == ResumeIx(bridge_state.authority)
             pr == resume_bridge(p.kept.bs, p.kept.supply, bridge_state.authority)
         IN  /\ p.ret.result = "Ok"
             /\ p.kept.bs = [bridge_state EXCEPT !.paused = TRUE]
             /\ p.kept.supply = supply
             /\ r.ret.result = "Ok"
             /\ r.kept.bs = [bridge_state EXCEPT !.paused = FALSE]
             /\ r.kept.supply = supply
             /\ pr.result = "Ok"
             /\ pr.bs = [bridge_state EXCEPT !.paused = FALSE]
             /\ pr.supply = supply
    /\ (call.op = "pause_bridge" /\ call.result = "Ok") =>
         /\ bridge_state = [call.pre EXCEPT !.paused = TRUE]
         /\ supply = call.pre_supply
    /\ (call.op = "resume_bridge" /\ call.result = "Ok") =>
         /\ bridge_state = [call.pre EXCEPT !.paused = FALSE]
         /\ supply = call.pre_supply
    /\ call.op \in {"pause_bridge", "resume_bridge"} =>
         call.result \in {"Ok", "Unauthorized"}

\* A pause_bridge succeeded on a bridge that was already paused and had
\* minted.
C7_Witness ==
    /\ call.op = "pause_bridge"
    /\ call.result = "Ok"
    /\ call.pre.paused
    /\ bridge_state.paused
    /\ bridge_state.total_minted # Zero

\* C8: initialize succeeds for every u16 fee_percentage (values above 10000
\* included) and leaves authority = the signer, mint = the mint account passed,
\* fee_percentage = the input, paused = false and the three counters 0.
C8_InitializeSetsState ==
    /\ ~initialized =>
         \A authority \in Signers, mint \in Mints, fee_percentage \in 0..U16_MAX :
            LET o == InitializeIx(authority, mint, fee_percentage)
            IN  /\ o.ret.result = "Ok"
                /\ o.kept.bs =
                     [authority |-> authority, mint |-> mint,
                      fee_percentage |-> fee_percentage, paused |-> FALSE,
                      total_minted |-> Zero, total_burned |-> Zero,
                      fee_collected |-> Zero]
                /\ o.kept.supply = supply
    /\ call.op = "initialize" =>
         /\ initialized
         /\ call.result = "Ok"
         /\ bridge_state.authority \in Signers
         /\ bridge_state.mint \in InitMints
         /\ bridge_state.fee_percentage \in FeeInputs
         /\ ~bridge_state.paused
         /\ bridge_state.total_minted = Zero
         /\ bridge_state.total_burned = Zero
         /\ bridge_state.fee_collected = Zero

\* initialize has just run with fee_percentage = 20000.
C8_Witness ==
    /\ call.op = "initialize"
    /\ call.result = "Ok"
    /\ bridge_state.fee_percentage = 20000
    /\ bridge_state.authority = "K2"
    /\ bridge_state.mint = "mintA"

BridgeErrors ==
    {"BridgePaused", "Unauthorized", "InvalidAmount", "InvalidZecAddress",
     "Overflow"}

Instructions ==
    {"mint_wzec", "burn_wzec", "update_authority", "pause_bridge",
     "resume_bridge"}

\* C9: a call that returned an error left the seven fields of the persisted
\* BridgeState and the custody ledger exactly as they were, also when the
\* custody call had already been issued; a call that issued a custody call and
\* returned Ok committed the custody effect and its counter together.  The
\* last conjunct is burn_wzec failing at fee_collected after total_burned was
\* advanced in memory, on account data no run produces (fee_collected at
\* u64::MAX): the advanced total_burned is not kept either.
C9_FailedCallCommitsNothing ==
    /\ call.result \notin {"Ok", "none"} => LastCallChangedNothing
    /\ (call.result = "Ok" /\ call.cpi.issued) =>
         /\ call.cpi.ok
         /\ supply # call.pre_supply
         /\ bridge_state # call.pre
    /\ (call.result = "Ok" /\ ~call.cpi.issued) => supply = call.pre_supply
    /\ LET bs == [bridge_state EXCEPT !.total_burned = Zero,
                                       !.fee_collected = U64_MAX]
           sup == [m \in Mints |-> FromInt(100)]
           ret == burn_effects(bs, sup, "mintA", FromInt(100), One, FromInt(99), TRUE)
       IN  /\ ret.result = "Overflow"
           /\ ret.site = "fee_collected"
           /\ ret.bs.total_burned = FromInt(100)
           /\ ret.supply # sup
           /\ Commit(bs, sup, ret) = [bs |-> bs, supply |-> sup]

\* A mint_wzec failed with Overflow after its custody call had succeeded, and
\* neither the ledger nor the account shows it.
C9_Witness ==
    /\ call.op = "mint_wzec"
    /\ call.result = "Overflow"
    /\ call.cpi.issued
    /\ call.cpi.ok
    /\ supply = call.pre_supply
    /\ bridge_state = call.pre

\* C10 as stated: every mint_wzec, burn_wzec, update_authority, pause_bridge
\* and resume_bridge returns success or one of the five BridgeError kinds.
C10_Original ==
    call.op \in Instructions => call.result \in BridgeErrors \cup {"Ok"}

\* C10, amended: every such call returns success, one of the five BridgeError
\* kinds or, exactly when its custody call returned an error, that error;
\* update_authority, pause_bridge and resume_bridge return only success or
\* Unauthorized.
C10_ResultKinds ==
    call.op \in Instructions =>
        /\ call.result \in BridgeErrors \cup {"Ok", "TokenProgramError"}
        /\ call.result = "TokenProgramError" <=>
             (call.cpi.issued /\ ~call.cpi.ok)
        /\ call.cpi.issued => call.op \in {"mint_wzec", "burn_wzec"}
        /\ call.op \in {"update_authority", "pause_bridge", "resume_bridge"} =>
             call.result \in {"Ok", "Unauthorized"}
        /\ call.op = "mint_wzec" => call.result # "InvalidZecAddress"

\* A burn_wzec returned the custody collaborator's error.
C10_Witness ==
    /\ call.op = "burn_wzec"
    /\ call.result = "TokenProgramError"
    /\ call.cpi.issued
    /\ ~call.cpi.ok

\* The accounts are as a committed call left them.  A call that failed keeps
\* the accounts it found (C9_FailedCallCommitsNothing), so every value the
\* accounts take in a reachable state is met in a state like this one, and
\* what an instruction does with each of its inputs is tried there.
AfterCommit == initialized /\ call.result = "Ok"

AddrLong == AddrValid \o "qq"
MoreAddresses == Addresses \cup {AddrLong, ZEC_PREFIX, ""}

\* C12: on an unpaused bridge burn_wzec with amount = 0 fails with
\* InvalidAmount whatever the address, and with amount > 0 it fails with
\* InvalidZecAddress exactly when the address does not start with
\* "ztestsapling1" or is shorter than 78 characters; the prefix plus 65 filler
\* characters has length 78 and passes, "zinvalid" fails.  A call refused for
\* its address touched nothing.
C12_AddressIsValidated ==
    /\ Len(AddrValid) = 78 /\ Len(AddrLong) = 80 /\ Len(AddrShort) = 77
    /\ Len(AddrNoPrefix) = 78
    /\ (AfterCommit /\ ~bridge_state.paused) =>
         \A user \in Signers, mint \in Mints, accept \in BOOLEAN,
            zec_address \in MoreAddresses :
            /\ LET o == BurnIx(user, mint, Zero, zec_address, accept)
               IN  o.ret.result = "InvalidAmount" /\ Untouched(o)
            /\ \A amount \in Amounts \ {Zero} :
                 LET o == BurnIx(user, mint, amount, zec_address, accept)
                     refused == o.ret.result = "InvalidZecAddress"
                 IN  /\ refused => Untouched(o)
                     /\ zec_address \in {AddrValid, AddrLong} => ~refused
                     /\ zec_address \in {AddrShort, AddrNoPrefix, AddrInvalid,
                                          ZEC_PREFIX, ""} => refused
                     /\ refused <=>
                          \/ Len(zec_address) < 78
                          \/ SubSeq(zec_address, 1, 13) # "ztestsapling1"
    /\ call.result = "InvalidZecAddress" =>
         /\ call.op = "burn_wzec"
         /\ ~call.pre.paused
         /\ ~call.cpi.issued
         /\ LastCallChangedNothing

\* A burn_wzec was refused with InvalidZecAddress on an unpaused bridge that
\* holds minted units.
C12_Witness ==
    /\ call.op = "burn_wzec"
    /\ call.result = "InvalidZecAddress"
    /\ ~bridge_state.paused
    /\ Lt(Zero, supply[bridge_state.mint])

\* C13: what mint_wzec returns and does is the same for every zcash_txid, used
\* by a committed mint before or not: from any state two mints that differ
\* only in the reference give the same result and the same accounts; a mint by
\* the authority on an unpaused bridge with amount > 0 that the custody
\* collaborator accepts and whose sum fits succeeds and adds amount to
\* total_minted, also when its reference is one of `used`.
C13_ReferenceIsIgnored ==
    /\ initialized =>
         \A authority \in Signers, mint \in Mints, amount \in Amounts,
            accept \in BOOLEAN :
            LET o == MintIx(authority, mint, amount, "txid1", accept)
            IN  /\ \A zcash_txid \in Txids \cup used :
                     MintIx(authority, mint, amount, zcash_txid, accept) = o
                /\ (/\ ~bridge_state.paused
                    /\ authority = bridge_state.authority
                    /\ Lt(Zero, amount)
                    /\ ~MintOverflows(amount)
                    /\ accept
                    /\ Leq(Add(supply[mint], amount), U64_MAX)) =>
                       /\ o.ret.result = "Ok"
                       /\ o.kept.bs.total_minted =
                            Add(bridge_state.total_minted, amount)
    /\ (call.op = "mint_wzec" /\ call.replay) =>
         /\ call.cpi.issued <=>
              call.result \notin {"BridgePaused", "Unauthorized", "InvalidAmount"}
         /\ (call.cpi.ok /\ call.result # "Overflow") =>
              /\ call.result = "Ok"
              /\ Lt(call.pre.total_minted, bridge_state.total_minted)
              /\ supply # call.pre_supply
    /\ used \subseteq Txids
    /\ used # {} => Lt(Zero, bridge_state.total_minted)

\* Two mints of 100 with the same reference both succeeded: total_minted is
\* 200 and one reference has been used.
C13_Witness ==
    /\ call.op = "mint_wzec"
    /\ call.result = "Ok"
    /\ call.replay
    /\ used = {"txid1"}
    /\ call.pre.total_minted = FromInt(100)
    /\ bridge_state.total_minted = FromInt(200)

\* C14: in every state after initialize the authority is not the all-zero
\* public key.  update_authority stores whatever key it is given, the all-zero
\* key included, so the statement fails: after update_authority(K0) nobody can
\* mint, pause, resume or replace the authority any more.
C14_AuthorityIsNonZero ==
    initialized => bridge_state.authority # ZERO_PUBKEY

\* C15: after initialize no step, of any instruction, successful or failed,
\* changes BridgeState.mint or BridgeState.fee_percentage.
C15_MintAndFeeAreFixed ==
    [][initialized =>
         /\ bridge_state'.mint = bridge_state.mint
         /\ bridge_state'.fee_percentage = bridge_state.fee_percentage]_vars

\* The authority was replaced on a paused bridge that has minted and burned:
\* mint and fee_percentage are still those of initialize.
C15_Witness ==
    /\ call.op = "update_authority"
    /\ call.result = "Ok"
    /\ bridge_state.authority # call.pre.authority
    /\ bridge_state.paused
    /\ Lt(Zero, bridge_state.total_burned)
    /\ bridge_state.mint \in InitMints
    /\ bridge_state.fee_percentage = 10001

\* The checked additions that advance the three counters.
CounterSites == {"total_minted", "total_burned", "fee_collected"}

\* C16 as stated: no mint_wzec or burn_wzec that has issued its custody call
\* fails with Overflow afterwards.
C16_Original ==
    call.cpi.issued => call.result # "Overflow"

\* C16, amended: mint_wzec and burn_wzec issue the custody call exactly when
\* every require! (pause, authority for mint_wzec, amount, address for
\* burn_wzec) and burn_wzec's fee computation have passed; the overflow checks
\* of the counters come after it, so a call that issued it can still fail
\* with Overflow, in the addition to a counter only and after the custody call
\* succeeded, and then nothing of the call is kept.
C16_CustodyAfterChecks ==
    /\ AfterCommit =>
         /\ \A authority \in Signers, mint \in Mints, amount \in Amounts,
               zcash_txid \in Txids, accept \in BOOLEAN :
              LET o == MintIx(authority, mint, amount, zcash_txid, accept)
              IN  /\ o.ret.cpi.issued <=>
                       /\ ~bridge_state.paused
                       /\ authority = bridge_state.authority
                       /\ Lt(Zero, amount)
                  /\ o.ret.result = "Overflow" =>
                       /\ o.ret.cpi.issued /\ o.ret.cpi.ok
                       /\ o.ret.site = "total_minted"
                       /\ KeepsNothing(o)
         /\ \A user \in Signers, mint \in Mints, amount \in Amounts,
               zec_address \in Addresses, accept \in BOOLEAN :
              LET o == BurnIx(user, mint, amount, zec_address, accept)
                  fp == bridge_state.fee_percentage
              IN  /\ o.ret.cpi.issued <=>
                       /\ ~bridge_state.paused
                       /\ Lt(Zero, amount)
                       /\ ValidAddress(zec_address)
                       /\ ~ProductOverflows(amount, fp)
                       /\ ~FeeExceedsAmount(amount, fp)
                  /\ o.ret.result = "Overflow" =>
                       /\ o.ret.cpi.issued <=> o.ret.site \in CounterSites
                       /\ o.ret.cpi.issued => o.ret.cpi.ok
                       /\ KeepsNothing(o)
    /\ call.result \in {"BridgePaused", "Unauthorized", "InvalidAmount",
                         "InvalidZecAddress"} => ~call.cpi.issued
    /\ call.result = "Overflow" =>
         /\ call.cpi.issued <=> call.site \in CounterSites
         /\ call.cpi.issued => call.cpi.ok
         /\ LastCallChangedNothing

\* A mint_wzec failed with Overflow in the addition to total_minted after its
\* custody call had succeeded, on a bridge that has burned.
C16_Witness ==
    /\ call.op = "mint_wzec"
    /\ call.result = "Overflow"
    /\ call.site = "total_minted"
    /\ call.cpi.issued /\ call.cpi.ok
    /\ Lt(Zero, call.pre.total_burned)

\* C17: every successful mint_wzec and burn_wzec acted on the asset recorded in
\* BridgeState.mint, so a committed call leaves the units of every other mint
\* as they were, total_minted and total_burned count units of that asset only
\* and total_burned <= total_minted.  Neither instruction compares the mint
\* account it is given with BridgeState.mint, so the statement fails: a
\* mint_wzec given another mint account succeeds and is counted.
C17_OnlyTheRecordedAsset ==
    /\ (call.op \in {"mint_wzec", "burn_wzec"} /\ call.result = "Ok") =>
         /\ \A m \in Mints \ {bridge_state.mint} : supply[m] = call.pre_supply[m]
         /\ supply[bridge_state.mint] # call.pre_supply[bridge_state.mint]
    /\ initialized =>
         /\ Leq(bridge_state.total_burned, bridge_state.total_minted)
         /\ Add(supply[bridge_state.mint], bridge_state.total_burned)
              = bridge_state.total_minted

\* C18: update_authority(new_authority) by the authority succeeds, paused or
\* not, replaces authority by new_authority and changes nothing else; on the
\* accounts it leaves, when new_authority differs from the old authority, a
\* mint_wzec (unpaused), pause_bridge, resume_bridge and update_authority
\* signed by the old authority fail with Unauthorized and the same calls
\* signed by new_authority are not refused as Unauthorized.  The authority
\* changes in no other way.
C18_AuthorityHandover ==
    /\ (initialized /\ bridge_state.authority \in Signers) =>
         \A new_authority \in Pubkeys :
            LET old == bridge_state.authority
                u == UpdateAuthorityIx(old, new_authority)
                bs == u.kept.bs
                By(signer) ==
                    {pause_bridge(bs, supply, signer).result,
                     resume_bridge(bs, supply, signer).result}
                    \cup {update_authority(bs, supply, signer, k).result :
                             k \in Pubkeys}
                    \cup {mint_wzec([bs EXCEPT !.paused = FALSE], supply, signer,
                                    mint, amount, zcash_txid, accept).result :
                             mint \in Mints, amount \in Amounts,
                             zcash_txid \in Txids, accept \in BOOLEAN}
            IN  /\ u.ret.result = "Ok"
                /\ bs = [bridge_state EXCEPT !.authority = new_authority]
                /\ u.kept.supply = supply
                /\ new_authority # old =>
                     /\ By(old) = {"Unauthorized"}
                     /\ new_authority \in Signers =>
                          "Unauthorized" \notin By(new_authority)
    /\ (call.op = "update_authority" /\ call.result = "Ok") =>
         /\ call.signer = call.pre.authority
         /\ bridge_state.authority \in Pubkeys
         /\ bridge_state = [call.pre EXCEPT !.authority = bridge_state.authority]
         /\ supply = call.pre_supply
    /\ bridge_state.authority # call.pre.authority =>
         call.op \in {"initialize", "update_authority"} /\ call.result = "Ok"
    /\ (call.op \in {"mint_wzec", "pause_bridge", "resume_bridge",
                      "update_authority"}
           /\ call.signer # call.pre.authority /\ ~call.pre.paused) =>
         call.result = "Unauthorized"

\* The authority was handed from K1 to K2 on a paused bridge that has minted:
\* only the authority field differs.
C18_Witness ==
    /\ call.op = "update_authority"
    /\ call.result = "Ok"
    /\ call.pre.authority = "K1"
    /\ call.pre.paused
    /\ Lt(Zero, call.pre.total_minted)
    /\ bridge_state = [call.pre EXCEPT !.authority = "K2"]

\* C19: a burn_wzec on an unpaused bridge with amount > 0 and a valid address
\* whose product amount * fee_percentage exceeds u64::MAX fails with Overflow,
\* in the multiplication, and touches nothing, also when fee_percentage <=
\* 10000 and the fee itself would fit; checked_mul gives the exact product or
\* nothing, and the fee a committed burn added to fee_collected is the floor
\* of an exact product that fits.
C19_ProductOverflowIsRefused ==
    /\ ~initialized =>
         \A amount \in Amounts, fee_percentage \in FeeInputs :
            LET product == checked_mul(amount, fee_percentage)
            IN  /\ product.some <=> ~ProductOverflows(amount, fee_percentage)
                /\ product.some => product.v = MulSmall(amount, fee_percentage)
    /\ (AfterCommit /\ ~bridge_state.paused) =>
         \A user \in Signers, mint \in Mints, amount \in Amounts \ {Zero},
            zec_address \in {a \in Addresses : ValidAddress(a)},
            accept \in BOOLEAN :
            LET o == BurnIx(user, mint, amount, zec_address, accept)
                fp == bridge_state.fee_percentage
            IN  /\ ProductOverflows(amount, fp) =>
                     /\ o.ret.result = "Overflow"
                     /\ o.ret.site = "checked_mul"
                     /\ Untouched(o)
                /\ o.ret.site = "checked_mul" => ProductOverflows(amount, fp)
                /\ (ProductOverflows(amount, fp) /\ fp <= BPS_DENOMINATOR) =>
                     Leq(DivSmall(MulSmall(amount, fp), BPS_DENOMINATOR), amount)
    /\ (call.op = "burn_wzec" /\ call.site = "checked_mul") =>
         /\ call.result = "Overflow"
         /\ ~call.cpi.issued
         /\ LastCallChangedNothing
    /\ (call.op = "burn_wzec" /\ call.result = "Ok") =>
         LET amount == Sub(bridge_state.total_burned, call.pre.total_burned)
             fee == Sub(bridge_state.fee_collected, call.pre.fee_collected)
         IN  /\ ~ProductOverflows(amount, bridge_state.fee_percentage)
             /\ IsFloorFee(fee, amount, bridge_state.fee_percentage)

\* A burn_wzec failed with Overflow in the multiplication at 10 basis points,
\* on a bridge whose mint has u64::MAX units in circulation.
C19_Witness ==
    /\ call.op = "burn_wzec"
    /\ call.result = "Overflow"
    /\ call.site = "checked_mul"
    /\ bridge_state.fee_percentage = 10
    /\ supply[bridge_state.mint] = U64_MAX

\* C20: in every state after initialize fee_collected <= total_burned, each
\* committed burn having added a fee of at most its amount; so a burn_wzec
\* whose addition to total_burned fits never fails in the addition to
\* fee_collected: no burn_wzec fails after having advanced total_burned.
C20_FeeCollectedWithinBurned ==
    /\ initialized => Leq(bridge_state.fee_collected, bridge_state.total_burned)
    /\ AfterCommit =>
         /\ \A user \in Signers, mint \in Mints, amount \in Amounts,
               zec_address \in Addresses, accept \in BOOLEAN :
              LET o == BurnIx(user, mint, amount, zec_address, accept)
              IN  /\ o.ret.site # "fee_collected"
                  /\ o.ret.bs.total_burned # bridge_state.total_burned =>
                       /\ o.ret.result = "Ok"
                       /\ Leq(o.ret.fee, amount)
                       /\ Leq(o.ret.bs.fee_collected, o.ret.bs.total_burned)
                  /\ o.ret.cpi.issued => Leq(o.ret.fee, amount)
    /\ call.site # "fee_collected"
    /\ (call.op = "burn_wzec" /\ call.result = "Ok") =>
         Leq(Sub(bridge_state.fee_collected, call.pre.fee_collected),
             Sub(bridge_state.total_burned, call.pre.total_burned))

\* A burn at a fee of 100% succeeded: fee_collected has caught up with
\* total_burned.
C20_Witness ==
    /\ call.op = "burn_wzec"
    /\ call.result = "Ok"
    /\ bridge_state.fee_percentage = BPS_DENOMINATOR
    /\ bridge_state.fee_collected = bridge_state.total_burned
    /\ Lt(Zero, bridge_state.fee_collected)

====
